---------------------------- MODULE Spec2Model ----------------------------
(***************************************************************************)
(* A model of generate_index.py: the ParametricEQ line and profile parser, *)
(* the folder-name classifier and the catalog builder (main).              *)
(*                                                                         *)
(* A Python str is a sequence of one-character strings, so that prefix,    *)
(* substring, strip, split, lower/upper and the regular expressions are    *)
(* computed character by character as the code computes them.  A float    *)
(* is the exact decimal [m, e] standing for m / 10^e, normalised.          *)
(***************************************************************************)
EXTENDS Integers, Sequences, FiniteSets, TLC

(***************************************************************************)
(* The state of the program: the variables                                 *)
(***************************************************************************)

VARIABLES
  \* parse_headphone_name: its argument and what it returned
  folder_name, name_result,
  \* parse_profile: the file, whether open() succeeds, the position in the
  \* function, the lines not yet looped over, the locals line, preamp,
  \* filters and filter_type, the branch the last iteration took, and what
  \* the function returned or raised
  content, readable, ppc, lines, line, preamp, filters, filter_type, step, profile,
  \* main: sys.argv and the root path, the directory tree, the position in
  \* main, the index of the loop over SOURCE_INFO, the names os.listdir gave
  \* that the two inner loops have not reached yet, the locals target_folder
  \* and form_factor, the dict all_entries, and the document printed
  root, tree, pc, source_idx, targets_left, target_folder, form_factor, hps_left,
  all_entries, database,
  \* the candidates that reached the merge, in the order they did
  visited,
  \* which run of the program this is, and what the first run printed
  run, first_database,
  \* what parse_profile returns or raises on each text of the tree, and
  \* what parse_headphone_name returns on each headphone folder of the tree:
  \* the two are functions of the text and of the name alone, and are
  \* evaluated once, before main starts
  profile_of, name_of

(***************************************************************************)
(* Characters and the str methods the program uses                         *)
(***************************************************************************)

\* ord(c), for the control characters the model uses and ASCII 32..95 and
\* 97..122
OrdMap ==
  ("\t" :> 9) @@ ("\n" :> 10) @@ ("\f" :> 12) @@ ("\r" :> 13) @@ (" " :> 32) @@ ("!" :> 33)
    @@ ("\"" :> 34) @@ ("#" :> 35) @@ ("$" :> 36) @@ ("%" :> 37) @@ ("&" :> 38) @@ ("'" :> 39)
    @@ ("(" :> 40) @@ (")" :> 41) @@ ("*" :> 42) @@ ("+" :> 43) @@ ("," :> 44) @@ ("-" :> 45)
    @@ ("." :> 46) @@ ("/" :> 47) @@ ("0" :> 48) @@ ("1" :> 49) @@ ("2" :> 50) @@ ("3" :> 51)
    @@ ("4" :> 52) @@ ("5" :> 53) @@ ("6" :> 54) @@ ("7" :> 55) @@ ("8" :> 56) @@ ("9" :> 57)
    @@ (":" :> 58) @@ (";" :> 59) @@ ("<" :> 60) @@ ("=" :> 61) @@ (">" :> 62) @@ ("?" :> 63)
    @@ ("@" :> 64) @@ ("A" :> 65) @@ ("B" :> 66) @@ ("C" :> 67) @@ ("D" :> 68) @@ ("E" :> 69)
    @@ ("F" :> 70) @@ ("G" :> 71) @@ ("H" :> 72) @@ ("I" :> 73) @@ ("J" :> 74) @@ ("K" :> 75)
    @@ ("L" :> 76) @@ ("M" :> 77) @@ ("N" :> 78) @@ ("O" :> 79) @@ ("P" :> 80) @@ ("Q" :> 81)
    @@ ("R" :> 82) @@ ("S" :> 83) @@ ("T" :> 84) @@ ("U" :> 85) @@ ("V" :> 86) @@ ("W" :> 87)
    @@ ("X" :> 88) @@ ("Y" :> 89) @@ ("Z" :> 90) @@ ("[" :> 91) @@ ("\\" :> 92) @@ ("]" :> 93)
    @@ ("^" :> 94) @@ ("_" :> 95) @@ ("a" :> 97) @@ ("b" :> 98) @@ ("c" :> 99) @@ ("d" :> 100)
    @@ ("e" :> 101) @@ ("f" :> 102) @@ ("g" :> 103) @@ ("h" :> 104) @@ ("i" :> 105) @@ ("j" :> 106)
    @@ ("k" :> 107) @@ ("l" :> 108) @@ ("m" :> 109) @@ ("n" :> 110) @@ ("o" :> 111) @@ ("p" :> 112)
    @@ ("q" :> 113) @@ ("r" :> 114) @@ ("s" :> 115) @@ ("t" :> 116) @@ ("u" :> 117) @@ ("v" :> 118)
    @@ ("w" :> 119) @@ ("x" :> 120) @@ ("y" :> 121) @@ ("z" :> 122)

Ord(c) == OrdMap[c]

\* str.lower() and str.upper() of one character
LowerMap ==
  ("A" :> "a") @@ ("B" :> "b") @@ ("C" :> "c") @@ ("D" :> "d") @@ ("E" :> "e") @@ ("F" :> "f")
    @@ ("G" :> "g") @@ ("H" :> "h") @@ ("I" :> "i") @@ ("J" :> "j") @@ ("K" :> "k") @@ ("L" :> "l")
    @@ ("M" :> "m") @@ ("N" :> "n") @@ ("O" :> "o") @@ ("P" :> "p") @@ ("Q" :> "q") @@ ("R" :> "r")
    @@ ("S" :> "s") @@ ("T" :> "t") @@ ("U" :> "u") @@ ("V" :> "v") @@ ("W" :> "w") @@ ("X" :> "x")
    @@ ("Y" :> "y") @@ ("Z" :> "z")

UpperMap ==
  ("a" :> "A") @@ ("b" :> "B") @@ ("c" :> "C") @@ ("d" :> "D") @@ ("e" :> "E") @@ ("f" :> "F")
    @@ ("g" :> "G") @@ ("h" :> "H") @@ ("i" :> "I") @@ ("j" :> "J") @@ ("k" :> "K") @@ ("l" :> "L")
    @@ ("m" :> "M") @@ ("n" :> "N") @@ ("o" :> "O") @@ ("p" :> "P") @@ ("q" :> "Q") @@ ("r" :> "R")
    @@ ("s" :> "S") @@ ("t" :> "T") @@ ("u" :> "U") @@ ("v" :> "V") @@ ("w" :> "W") @@ ("x" :> "X")
    @@ ("y" :> "Y") @@ ("z" :> "Z")

LowerChar(c) == IF c \in DOMAIN LowerMap THEN LowerMap[c] ELSE c

UpperChar(c) == IF c \in DOMAIN UpperMap THEN UpperMap[c] ELSE c

\* a function of domain 1..n, as the tuple of its n values
Tuple(f, n) == SubSeq(f, 1, n)

\* s.lower() and s.upper()
Lower(s) == Tuple([i \in 1..Len(s) |-> LowerChar(s[i])], Len(s))

Upper(s) == Tuple([i \in 1..Len(s) |-> UpperChar(s[i])], Len(s))

\* str.isspace() of one character; also the class \s of the re module
IsSpace(c) == c \in {" ", "\t", "\n", "\r", "\f"}

\* the class \d
IsDigit(c) == c \in {"0", "1", "2", "3", "4", "5", "6", "7", "8", "9"}

\* s[i:]
From(s, i) == SubSeq(s, i, Len(s))

\* s.startswith(p)
StartsWith(s, p) == Len(p) <= Len(s) /\ SubSeq(s, 1, Len(p)) = p

\* sub in s
Contains(s, sub) ==
  \/ sub = <<>>
  \/ \E i \in 1..(Len(s) - Len(sub) + 1) :
       s[i] = sub[1] /\ SubSeq(s, i, i + Len(sub) - 1) = sub

\* the least and the greatest element of a non-empty set of integers
First(S) == CHOOSE i \in S : \A j \in S : i <= j

Last(S) == CHOOSE i \in S : \A j \in S : j <= i

\* s.strip()
Strip(s) ==
  LET keep == {i \in 1..Len(s) : ~IsSpace(s[i])}
      lo == CHOOSE i \in 1..Len(s) :
              ~IsSpace(s[i]) /\ \A j \in 1..(i - 1) : IsSpace(s[j])
      hi == CHOOSE i \in 1..Len(s) :
              ~IsSpace(s[i]) /\ \A j \in (i + 1)..Len(s) : IsSpace(s[j])
  IN IF keep = {} THEN <<>> ELSE SubSeq(s, lo, hi)

\* s.split(sep) for a one-character separator: the texts between the
\* occurrences of sep
Split(s, sep) ==
  LET at == {i \in 1..Len(s) : s[i] = sep}
      n == Cardinality(at)
      Cut(k) == IF k = 0 THEN 0
                ELSE IF k = n + 1 THEN Len(s) + 1
                ELSE CHOOSE i \in at : Cardinality({j \in at : j <= i}) = k
  IN Tuple([k \in 1..(n + 1) |-> SubSeq(s, Cut(k - 1) + 1, Cut(k) - 1)], n + 1)

\* s.split(" ", 1)
SplitFirstSpace(s) ==
  LET at == {i \in 1..Len(s) : s[i] = " "}
      k == First(at)
  IN IF at = {} THEN <<s>> ELSE <<SubSeq(s, 1, k - 1), From(s, k + 1)>>

\* a < b for two str, by code point
StrLess(a, b) ==
  LET n == IF Len(a) < Len(b) THEN Len(a) ELSE Len(b)
      diff == {i \in 1..n : a[i] # b[i]}
  IN IF diff = {} THEN Len(a) < Len(b)
     ELSE Ord(a[First(diff)]) < Ord(b[First(diff)])

\* a < b for two (str, str) tuples
PairLess(a, b) == StrLess(a[1], b[1]) \/ (a[1] = b[1] /\ StrLess(a[2], b[2]))

(***************************************************************************)
(* Name classifier                                                         *)
(***************************************************************************)

\* detect_form_factor(target_folder)
detect_form_factor(tfolder) ==
  LET target_lower == Lower(tfolder)
  IN IF \/ Contains(target_lower, <<"i", "n", "-", "e", "a", "r">>)
        \/ Contains(target_lower, <<"i", "n", "_", "e", "a", "r">>)
        \/ Contains(target_lower, <<"i", "e", "m">>)
     THEN "in-ear"
     ELSE IF Contains(target_lower, <<"e", "a", "r", "b", "u", "d">>)
          THEN "earbud"
          ELSE "over-ear"

\* the list manufacturers of parse_headphone_name, in its order
manufacturers ==
  <<
     <<"A", "K", "G">>,
     <<"A", "u", "d", "i", "o", "-", "T", "e", "c", "h", "n", "i", "c", "a">>,
     <<"A", "u", "d", "e", "z", "e">>,
     <<"B", "a", "n", "g", " ", "&", " ", "O", "l", "u", "f", "s", "e", "n">>,
     <<"B", "e", "a", "t", "s">>,
     <<"B", "e", "y", "e", "r", "d", "y", "n", "a", "m", "i", "c">>,
     <<"B", "o", "s", "e">>,
     <<"C", "a", "m", "p", "f", "i", "r", "e", " ", "A", "u", "d", "i", "o">>,
     <<"D", "a", "n", " ", "C", "l", "a", "r", "k", " ", "A", "u", "d", "i", "o">>,
     <<"D", "e", "n", "o", "n">>,
     <<"F", "i", "i", "O">>,
     <<"F", "i", "n", "a", "l">>,
     <<"F", "o", "c", "a", "l">>,
     <<"G", "r", "a", "d", "o">>,
     <<"H", "a", "r", "m", "o", "n", "i", "c", "D", "y", "n", "e">>,
     <<"H", "I", "F", "I", "M", "A", "N">>,
     <<"J", "B", "L">>,
     <<"K", "o", "s", "s">>,
     <<"M", "a", "s", "s", "d", "r", "o", "p">>,
     <<"M", "e", "z", "e">>,
     <<"M", "o", "o", "n", "d", "r", "o", "p">>,
     <<"P", "h", "i", "l", "i", "p", "s">>,
     <<"P", "i", "o", "n", "e", "e", "r">>,
     <<"S", "e", "n", "n", "h", "e", "i", "s", "e", "r">>,
     <<"S", "h", "u", "r", "e">>,
     <<"S", "o", "n", "y">>,
     <<"S", "t", "e", "e", "l", "S", "e", "r", "i", "e", "s">>,
     <<"S", "T", "A", "X">>,
     <<"T", "i", "n", " ", "H", "i", "F", "i">>,
     <<"V", "-", "M", "O", "D", "A">>,
     <<"Z", "M", "F">>,
     <<"6", "4", " ", "A", "u", "d", "i", "o">>,
     <<"7", "H", "z">>,
     <<"A", "n", "k", "e", "r">>,
     <<"A", "p", "p", "l", "e">>,
     <<"A", "F", "U", "L">>,
     <<"B", "L", "O", "N">>,
     <<"C", "C", "A">>,
     <<"D", "u", "n", "u">>,
     <<"E", "m", "p", "i", "r", "e", " ", "E", "a", "r", "s">>,
     <<"E", "t", "y", "m", "o", "t", "i", "c">>,
     <<"F", "a", "t", "F", "r", "e", "q">>,
     <<"H", "i", "d", "i", "z", "s">>,
     <<"H", "i", "B", "y">>,
     <<"i", "B", "a", "s", "s", "o">>,
     <<"J", "V", "C">>,
     <<"K", "Z">>,
     <<"L", "e", "t", "s", "h", "u", "o", "e", "r">>,
     <<"L", "i", "n", "s", "o", "u", "l">>,
     <<"N", "o", "b", "l", "e", " ", "A", "u", "d", "i", "o">>,
     <<"Q", "K", "Z">>,
     <<"S", "a", "m", "s", "u", "n", "g">>,
     <<"S", "e", "e", " ", "A", "u", "d", "i", "o">>,
     <<"S", "i", "m", "g", "o", "t">>,
     <<"S", "o", "f", "t", "E", "a", "r", "s">>,
     <<"T", "a", "n", "g", "z", "u">>,
     <<"T", "h", "i", "e", "a", "u", "d", "i", "o">>,
     <<"T", "i", "n", "h", "i", "f", "i">>,
     <<"T", "r", "i", "p", "o", "w", "i", "n">>,
     <<"T", "R", "N">>,
     <<"T", "r", "u", "t", "h", "e", "a", "r">>,
     <<"U", "n", "i", "q", "u", "e", " ", "M", "e", "l", "o", "d", "y">>,
     <<"W", "e", "s", "t", "o", "n", "e">>,
     <<"Y", "a", "n", "y", "i", "n">>,
     <<"B", "G", "V", "P">>,
     <<"C", "C", "Z">>
  >>

\* A mutant of MfrMatches: the prefix test alone, without the test of what
\* follows the manufacturer.
MfrMatchesPrefixOnly(fname, mfr) ==
  StartsWith(Lower(fname), Lower(mfr))

\* the two conditions under which the loop of parse_headphone_name returns
MfrMatches(fname, mfr) ==
  /\ StartsWith(Lower(fname), Lower(mfr))
  /\ \/ StartsWith(Lower(fname), Lower(mfr) \o <<" ">>)
     \/ Lower(fname) = Lower(mfr)

\* parse_headphone_name(folder_name): the pair <<manufacturer, model>>
parse_headphone_name(fname) ==
  LET hits == {i \in 1..Len(manufacturers) : MfrMatches(fname, manufacturers[i])}
      first == CHOOSE i \in hits : \A j \in hits : i <= j
      mfr == manufacturers[first]
      model == Strip(From(fname, Len(mfr) + 1))
      parts == SplitFirstSpace(fname)
  IN IF hits # {}
     THEN <<mfr, IF model # <<>> THEN model ELSE fname>>
     ELSE IF Len(parts) = 2
          THEN <<parts[1], parts[2]>>
          ELSE <<fname, <<>> >>

(***************************************************************************)
(* float() and the regular expressions of parse_profile                    *)
(***************************************************************************)

\* no match of a regular expression: a match is never the empty string
NoMatch == <<>>

\* the ValueError float() raises
ValueError == [error |-> "ValueError"]

\* the value of a string of decimal digits
DigitsValue(s) ==
  LET v[k \in 0..Len(s)] == IF k = 0 THEN 0 ELSE 10 * v[k - 1] + (Ord(s[k]) - 48)
  IN v[Len(s)]

\* the decimal m / 10^e without trailing zeros of the fraction
Normalise(m, e) ==
  LET k == Last({j \in 0..e : m % (10 ^ j) = 0})
  IN [m |-> m \div (10 ^ k), e |-> e - k]

\* whether float(s) accepts s, for s made of "-", "." and digits
IsFloatLiteral(s) ==
  LET body == IF s # <<>> /\ s[1] = "-" THEN Tail(s) ELSE s
  IN /\ \A i \in 1..Len(body) : IsDigit(body[i]) \/ body[i] = "."
     /\ Cardinality({i \in 1..Len(body) : body[i] = "."}) <= 1
     /\ \E i \in 1..Len(body) : IsDigit(body[i])

\* float(s): the value, or ValueError
float(s) ==
  LET neg == s # <<>> /\ s[1] = "-"
      body == IF neg THEN Tail(s) ELSE s
      dots == {i \in 1..Len(body) : body[i] = "."}
      dot == IF dots = {} THEN Len(body) + 1 ELSE CHOOSE i \in dots : TRUE
      int == SubSeq(body, 1, dot - 1)
      frac == SubSeq(body, dot + 1, Len(body))
      mag == DigitsValue(int \o frac)
  IN IF ~IsFloatLiteral(s) THEN ValueError
     ELSE Normalise(IF neg THEN -mag ELSE mag, Len(frac))

\* the literals 0.0, 1000.0 and 0.707
DefaultPreamp == [m |-> 0, e |-> 0]

DefaultFreq == [m |-> 1000, e |-> 0]

DefaultGain == [m |-> 0, e |-> 0]

DefaultQ == [m |-> 707, e |-> 3]

IsDigitOrDot(c) == IsDigit(c) \/ c = "."

\* \d*, \s* and [\d.]* matched at i: the end (exclusive) of the longest run,
\* starting at i, of characters of the class
DigitsEnd(s, i) ==
  CHOOSE j \in i..(Len(s) + 1) :
    /\ j > Len(s) \/ ~IsDigit(s[j])
    /\ \A k \in i..(j - 1) : IsDigit(s[k])

SpacesEnd(s, i) ==
  CHOOSE j \in i..(Len(s) + 1) :
    /\ j > Len(s) \/ ~IsSpace(s[j])
    /\ \A k \in i..(j - 1) : IsSpace(s[k])

DigitDotEnd(s, i) ==
  CHOOSE j \in i..(Len(s) + 1) :
    /\ j > Len(s) \/ ~IsDigitOrDot(s[j])
    /\ \A k \in i..(j - 1) : IsDigitOrDot(s[k])

\* \d+\.?\d* matched at i: the end (exclusive) of the match, or 0
NumberEnd(s, i) ==
  LET a == DigitsEnd(s, i)
      b == IF a <= Len(s) /\ s[a] = "." THEN a + 1 ELSE a
  IN IF a = i THEN 0 ELSE DigitsEnd(s, b)

\* -?\d+\.?\d* matched at i: the end (exclusive) of the match, or 0
SignedNumberEnd(s, i) ==
  IF i <= Len(s) /\ s[i] = "-" THEN NumberEnd(s, i + 1) ELSE NumberEnd(s, i)

\* re.search(r'-?\d+\.?\d*', line): the matched text, or NoMatch
SearchNumber(ln) ==
  LET at == {i \in 1..Len(ln) : SignedNumberEnd(ln, i) # 0}
  IN IF at = {} THEN NoMatch
     ELSE SubSeq(ln, First(at), SignedNumberEnd(ln, First(at)) - 1)

\* re.search(word + r'\s+(' + number + ')', line, re.IGNORECASE): group 1, or
\* NoMatch; signed says whether the number may start with "-"
SearchAfterWord(ln, word, signed) ==
  LET n == Len(word)
      NumEnd(j) == IF signed THEN SignedNumberEnd(ln, j) ELSE NumberEnd(ln, j)
      Start(i) == SpacesEnd(ln, i + n)
      at == {i \in 1..(Len(ln) - n + 1) :
               /\ Lower(SubSeq(ln, i, i + n - 1)) = Lower(word)
               /\ Start(i) > i + n
               /\ NumEnd(Start(i)) # 0}
  IN IF at = {} THEN NoMatch
     ELSE SubSeq(ln, Start(First(at)), NumEnd(Start(First(at))) - 1)

\* re.search(r'Fc\s+(\d+\.?\d*)', line, re.IGNORECASE)
SearchFc(ln) == SearchAfterWord(ln, <<"F", "c">>, FALSE)

\* re.search(r'Gain\s+(-?\d+\.?\d*)', line, re.IGNORECASE)
SearchGain(ln) == SearchAfterWord(ln, <<"G", "a", "i", "n">>, TRUE)

\* re.search(r'\sQ\s+([\d.]+)', line, re.IGNORECASE): group 1, or NoMatch
SearchQ(ln) ==
  LET Start(i) == SpacesEnd(ln, i + 2)
      at == {i \in 1..(Len(ln) - 1) :
               /\ IsSpace(ln[i])
               /\ LowerChar(ln[i + 1]) = "q"
               /\ Start(i) > i + 2
               /\ DigitDotEnd(ln, Start(i)) > Start(i)}
  IN IF at = {} THEN NoMatch
     ELSE SubSeq(ln, Start(First(at)), DigitDotEnd(ln, Start(First(at))) - 1)

(***************************************************************************)
(* parse_profile                                                           *)
(***************************************************************************)

\* FILTER_TYPES, in its insertion order: <<code, type>>
FILTER_TYPES ==
  << << <<"P", "K">>, "peaking" >>,
     << <<"P", "E", "Q">>, "peaking" >>,
     << <<"L", "S", "C">>, "lowShelf" >>,
     << <<"L", "S", "B">>, "lowShelf" >>,
     << <<"L", "S">>, "lowShelf" >>,
     << <<"H", "S", "C">>, "highShelf" >>,
     << <<"H", "S", "B">>, "highShelf" >>,
     << <<"H", "S">>, "highShelf" >>,
     << <<"L", "P">>, "lowPass" >>,
     << <<"L", "P", "Q">>, "lowPass" >>,
     << <<"H", "P">>, "highPass" >>,
     << <<"H", "P", "Q">>, "highPass" >> >>

W_preamp == <<"p", "r", "e", "a", "m", "p", ":">>

W_Filter == <<"F", "i", "l", "t", "e", "r">>

W_ON == <<" ", "O", "N", " ">>

\* line.lower().startswith('preamp:')
IsPreampLine(ln) == StartsWith(Lower(ln), W_preamp)

\* A mutant of PreampAfter: a declaration without a number resets the preamp.
PreampAfterReset(ln, pre) ==
  IF SearchNumber(ln) # NoMatch THEN float(SearchNumber(ln)) ELSE DefaultPreamp

\* the preamp after a preamp declaration line
PreampAfter(ln, pre) ==
  IF SearchNumber(ln) # NoMatch THEN float(SearchNumber(ln)) ELSE pre

\* the two tests a line passes to reach the type detection
PassesFilterTests(ln) ==
  /\ ~(~Contains(ln, W_Filter) \/ ~Contains(ln, <<":">>))
  /\ ~(~Contains(Upper(ln), W_ON))

\* f' {code} ' in upper_line
CodePresent(code, upper_line) == Contains(upper_line, <<" ">> \o code \o <<" ">>)

\* A mutant of DetectType: the loop without its break, the last present code wins.
DetectTypeLast(upper_line) ==
  LET hits == {i \in 1..Len(FILTER_TYPES) : CodePresent(FILTER_TYPES[i][1], upper_line)}
  IN IF hits = {} THEN "None"
     ELSE FILTER_TYPES[CHOOSE i \in hits : \A j \in hits : j <= i][2]

\* the loop over FILTER_TYPES.items(): the type, or "None"
DetectType(upper_line) ==
  LET hits == {i \in 1..Len(FILTER_TYPES) : CodePresent(FILTER_TYPES[i][1], upper_line)}
  IN IF hits = {} THEN "None" ELSE FILTER_TYPES[First(hits)][2]

\* freq, gain and q of a filter line; q is ValueError when float() raises
ExtractFreq(ln) ==
  IF SearchFc(ln) # NoMatch THEN float(SearchFc(ln)) ELSE DefaultFreq

ExtractGain(ln) ==
  IF SearchGain(ln) # NoMatch THEN float(SearchGain(ln)) ELSE DefaultGain

ExtractQ(ln) ==
  IF SearchQ(ln) # NoMatch THEN float(SearchQ(ln)) ELSE DefaultQ

\* The branch one iteration of the loop over content.split('\n') ends in,
\* for the stripped line: the continue after a preamp declaration ("preamp"),
\* one of the two continues of the filter tests ("skip"), the continue for
\* no filter_type ("notype"), the ValueError of float() ("raise"), or
\* filters.append ("filter").
LineKind(ln) ==
  IF IsPreampLine(ln) THEN "preamp"
  ELSE IF ~PassesFilterTests(ln) THEN "skip"
  ELSE IF DetectType(Upper(ln)) = "None" THEN "notype"
  ELSE IF ExtractQ(ln) = ValueError THEN "raise"
  ELSE "filter"

\* One iteration of the loop, from the values of preamp and filters before
\* it: the branch it ended in, the values after it, and the local filter_type.
LineEffect(raw, pre, flts) ==
  LET ln == Strip(raw)
      kind == LineKind(ln)
      ftype == IF kind \in {"preamp", "skip"} THEN "None"
                     ELSE DetectType(Upper(ln))
  IN [kind |-> kind,
      filter_type |-> ftype,
      preamp |-> IF kind = "preamp" THEN PreampAfter(ln, pre) ELSE pre,
      filters |->
        IF kind = "filter"
        THEN Append(flts, [type |-> ftype, freq |-> ExtractFreq(ln),
                              q |-> ExtractQ(ln), gain |-> ExtractGain(ln)])
        ELSE flts]

\* the loop of parse_profile over the lines: the profile, or ValueError
ParseLines(ls, preamp0, filters0) ==
  LET st[k \in 0..Len(ls)] ==
        IF k = 0
        THEN [kind |-> "start", filter_type |-> "None",
              preamp |-> preamp0, filters |-> filters0]
        ELSE LET prev == st[k - 1]
             IN IF prev.kind = "raise" THEN prev
                ELSE LineEffect(ls[k], prev.preamp, prev.filters)
      end == st[Len(ls)]
  IN IF end.kind = "raise" THEN ValueError
     ELSE [preamp |-> end.preamp, filters |-> end.filters]

\* parse_profile(file_path) on a file that was read: text is its text
parse_profile(text) == ParseLines(Split(text, "\n"), DefaultPreamp, <<>>)

(***************************************************************************)
(* The texts the files of the model are made of                            *)
(***************************************************************************)

\* the text Preamp: -2.0 dB
L_PreampNeg ==
  << "P", "r", "e", "a", "m", "p", ":", " ", "-", "2", ".", "0", " ", "d",
     "B" >>

\* the text Preamp: none
L_PreampNone ==
  << "P", "r", "e", "a", "m", "p", ":", " ", "n", "o", "n", "e" >>

\* the text  PREAMP:-6.5 
L_PreampPadded ==
  << " ", "P", "R", "E", "A", "M", "P", ":", "-", "6", ".", "5", " " >>

\* the text Filter 1: ON PK Fc 105 Hz Gain -3.5 dB Q 0.70
L_FilterPK ==
  << "F", "i", "l", "t", "e", "r", " ", "1", ":", " ", "O", "N", " ", "P",
     "K", " ", "F", "c", " ", "1", "0", "5", " ", "H", "z", " ", "G", "a",
     "i", "n", " ", "-", "3", ".", "5", " ", "d", "B", " ", "Q", " ", "0",
     ".", "7", "0" >>

\* the text Filter 2: ON LSC Fc 50
L_FilterLS ==
  << "F", "i", "l", "t", "e", "r", " ", "2", ":", " ", "O", "N", " ", "L",
     "S", "C", " ", "F", "c", " ", "5", "0" >>

\* the text Filter 3: OFF PK Fc 9 Q 2
L_FilterOff ==
  << "F", "i", "l", "t", "e", "r", " ", "3", ":", " ", "O", "F", "F", " ",
     "P", "K", " ", "F", "c", " ", "9", " ", "Q", " ", "2" >>

\* the text Filter 4: ON HS Fc 8 Q 1.2.3
L_FilterBadQ ==
  << "F", "i", "l", "t", "e", "r", " ", "4", ":", " ", "O", "N", " ", "H",
     "S", " ", "F", "c", " ", "8", " ", "Q", " ", "1", ".", "2", ".", "3" >>

\* the text Filter 1: ON
P_On ==
  << "F", "i", "l", "t", "e", "r", " ", "1", ":", " ", "O", "N" >>

\* the text Filter: on
P_OnLower ==
  << "F", "i", "l", "t", "e", "r", ":", " ", "o", "n" >>

\* the text Filter 1: OFF
P_Off ==
  << "F", "i", "l", "t", "e", "r", " ", "1", ":", " ", "O", "F", "F" >>

\* the text Filter 1 ON
P_NoColon ==
  << "F", "i", "l", "t", "e", "r", " ", "1", " ", "O", "N" >>

\* the text filter 1: ON
P_LowerFilter ==
  << "f", "i", "l", "t", "e", "r", " ", "1", ":", " ", "O", "N" >>

\* the text Preamp: Filter 1: ON
P_PreampFilter ==
  << "P", "r", "e", "a", "m", "p", ":", " ", "F", "i", "l", "t", "e", "r",
     " ", "1", ":", " ", "O", "N" >>

\* the text  Fc 105 Hz Gain -3.5 dB Q 0.70
S_Params ==
  << " ", "F", "c", " ", "1", "0", "5", " ", "H", "z", " ", "G", "a", "i",
     "n", " ", "-", "3", ".", "5", " ", "d", "B", " ", "Q", " ", "0", ".",
     "7", "0" >>

\* the text  Q 1.2.3
S_BadQ ==
  << " ", "Q", " ", "1", ".", "2", ".", "3" >>

\* the lines of the multi-line files
ProfileLines ==
  { L_PreampNeg, L_PreampNone, L_PreampPadded,
    L_FilterPK, L_FilterLS, L_FilterOff, L_FilterBadQ, <<>> }

\* the starts and ends of the one-line files; the first starts pass the two
\* filter tests
EligiblePrefixes == {P_On, P_OnLower}

LinePrefixes == EligiblePrefixes \cup {P_Off, P_NoColon, P_LowerFilter, P_PreampFilter}

LineSuffixes == {<<>>, S_Params, S_BadQ}

\* the words between them: every code of FILTER_TYPES, a code in lower
\* case, a code glued to a letter, a code after a tab instead of a space
CodeWords ==
  {FILTER_TYPES[i][1] : i \in 1..Len(FILTER_TYPES)}
    \cup { <<"h", "s">>, <<"x", "P", "K">>, <<"\t", "L", "P">> }

\* the number of lines of a multi-line file, and of words of a one-line file
MaxLines == 3

MaxCodes == 2

\* the sequences of at most n elements of S
SeqsUpTo(S, n) == UNION {[1..k -> S] : k \in 0..n}

\* '\n'.join(ls)
JoinLines(ls) ==
  LET acc[k \in 0..Len(ls)] ==
        IF k = 0 THEN <<>>
        ELSE IF k = 1 THEN ls[1]
        ELSE acc[k - 1] \o <<"\n">> \o ls[k]
  IN acc[Len(ls)]

\* ' ' + w for every word w, concatenated
SpacedWords(ws) ==
  LET acc[k \in 0..Len(ws)] ==
        IF k = 0 THEN <<>> ELSE acc[k - 1] \o <<" ">> \o ws[k]
  IN acc[Len(ws)]

\* the file contents parse_profile is run on: files of several lines, and
\* files of one filter line
MultiLineFiles == {JoinLines(ls) : ls \in SeqsUpTo(ProfileLines, MaxLines)}

OneLineFiles ==
  {p \o SpacedWords(ws) \o s :
     p \in EligiblePrefixes, ws \in SeqsUpTo(CodeWords, MaxCodes), s \in {<<>>, S_Params}}
    \cup {p \o SpacedWords(<<w>>) \o s :
            p \in LinePrefixes, w \in CodeWords, s \in LineSuffixes}

ProfileFiles == MultiLineFiles \cup OneLineFiles

\* the folder names parse_headphone_name is run on
NameAlphabet == {"A", "K", "k", "G", "Z", " "}

MaxNameLen == 5

FolderNames == SeqsUpTo(NameAlphabet, MaxNameLen)

\* parse_profile returning None, and a variable that holds nothing yet
None == [none |-> TRUE]

Unset == [unset |-> TRUE]

(***************************************************************************)
(* The directory tree main walks                                           *)
(***************************************************************************)

\* SOURCE_INFO, in its insertion order
SOURCE_INFO ==
  <<
     [folder |-> <<"o", "r", "a", "t", "o", "r", "y", "1", "9", "9", "0">>,
      priority |-> 1,
      name |-> <<"o", "r", "a", "t", "o", "r", "y", "1", "9", "9", "0">>],
     [folder |-> <<"c", "r", "i", "n", "a", "c", "l", "e">>,
      priority |-> 2,
      name |-> <<"c", "r", "i", "n", "a", "c", "l", "e">>],
     [folder |-> <<"R", "t", "i", "n", "g", "s">>,
      priority |-> 3,
      name |-> <<"r", "t", "i", "n", "g", "s">>],
     [folder |-> <<"I", "n", "n", "e", "r", "f", "i", "d", "e", "l", "i", "t", "y">>,
      priority |-> 3,
      name |-> <<"i", "n", "n", "e", "r", "f", "i", "d", "e", "l", "i", "t", "y">>],
     [folder |-> <<"H", "e", "a", "d", "p", "h", "o", "n", "e", ".", "c", "o", "m", " ", "L", "e", "g", "a", "c", "y">>,
      priority |-> 4,
      name |-> <<"h", "e", "a", "d", "p", "h", "o", "n", "e", ".", "c", "o", "m">>]
  >>

\* An item of the tree is a path below the root and what is found there:
\*   "srcfile"     <root>/src is a regular file
\*   "tgtfile"     <root>/src/tgt is a regular file
\*   "hpfile"      <root>/src/tgt/hp is a regular file
\*   "nopeq"       <root>/src/tgt/hp is a directory without the expected file
\*   "unreadable"  the expected file exists and open() or read() raises
\*   "text"        the expected file exists and holds text
\* Every other path named by an item is a directory.
Item(src, tgt, hp, kind, text) ==
  [src |-> src, tgt |-> tgt, hp |-> hp, kind |-> kind, text |-> text]

\* the source folders, target folders and headphone folders of the trees
TreeSources == {SOURCE_INFO[1].folder, SOURCE_INFO[3].folder, SOURCE_INFO[4].folder}

TargetNames == { <<"I", "E", "M">>,
                 <<"o", "v", "e", "r", "-", "e", "a", "r">> }

H_AKG == <<"A", "K", "G", " ", "K">>

H_akg == <<"a", "k", "g", " ", "k">>

H_KZ == <<"K", "Z">>

HeadphoneNames == {H_AKG, H_akg, H_KZ}

\* the texts of the expected files
T_Peaking == JoinLines(<<L_PreampNeg, L_FilterPK>>)

T_Shelf == JoinLines(<<L_FilterLS>>)

T_NoFilters == JoinLines(<<L_PreampNeg, L_FilterOff>>)

T_BadQ == JoinLines(<<L_FilterPK, L_FilterBadQ>>)

FileTexts == {T_Peaking, T_Shelf, T_NoFilters, T_BadQ}

TreeItems ==
  {Item(s, <<>>, <<>>, "srcfile", <<>>) : s \in TreeSources}
    \cup {Item(s, t, <<>>, "tgtfile", <<>>) : s \in TreeSources, t \in TargetNames}
    \cup {Item(s, t, h, k, <<>>) :
            s \in TreeSources, t \in TargetNames, h \in HeadphoneNames,
            k \in {"hpfile", "nopeq", "unreadable"}}
    \cup {Item(s, t, h, "text", x) :
            s \in TreeSources, t \in TargetNames, h \in HeadphoneNames, x \in FileTexts}

\* two items that cannot be in one tree: the same path, or one below a
\* regular file
Clash(a, b) ==
  /\ a.src = b.src
  /\ \/ a.kind = "srcfile" \/ b.kind = "srcfile"
     \/ /\ a.tgt = b.tgt
        /\ \/ a.kind = "tgtfile" \/ b.kind = "tgtfile"
           \/ a.hp = b.hp

\* the number of items of a tree
MaxItems == 2

\* the trees of at most n items
TreesUpTo(n) ==
  LET trees[k \in 0..n] ==
        IF k = 0 THEN {{}}
        ELSE trees[k - 1] \cup
               {p[1] \cup {p[2]} :
                  p \in {q \in trees[k - 1] \X TreeItems : \A y \in q[1] : ~Clash(q[2], y)}}
  IN trees[n]

\* source_path.exists()
SourceExists(t, src) == \E i \in t : i.src = src

\* os.listdir(source_path) succeeds: the path is a directory
SourceIsDir(t, src) == \E i \in t : i.src = src /\ i.kind # "srcfile"

\* the names in os.listdir(source_path)
TargetsOf(t, src) == {i.tgt : i \in {j \in t : j.src = src /\ j.kind # "srcfile"}}

\* target_path.is_dir()
TargetIsDir(t, src, tgt) ==
  \E i \in t : i.src = src /\ i.tgt = tgt /\ i.kind \notin {"srcfile", "tgtfile"}

\* the names in os.listdir(target_path)
HeadphonesOf(t, src, tgt) ==
  {i.hp : i \in {j \in t : j.src = src /\ j.tgt = tgt
                            /\ j.kind \notin {"srcfile", "tgtfile"}}}

\* what is at <root>/src/tgt/hp
ItemAt(t, src, tgt, hp) ==
  CHOOSE i \in t : i.src = src /\ i.tgt = tgt /\ i.hp = hp
                   /\ i.kind \notin {"srcfile", "tgtfile"}

\* parse_profile on the texts of the trees, computed once
ProfileTable ==
  (T_Peaking :> parse_profile(T_Peaking)) @@ (T_Shelf :> parse_profile(T_Shelf))
    @@ (T_NoFilters :> parse_profile(T_NoFilters)) @@ (T_BadQ :> parse_profile(T_BadQ))

\* parse_profile(peq_file) for the file of an item: None when it cannot be
\* read, ValueError when float() raises
ProfileOf(item) ==
  IF item.kind = "unreadable" THEN None ELSE profile_of[item.text]

\* parse_headphone_name(headphone_folder) for the folders of the trees,
\* computed once
NameTable ==
  (H_AKG :> parse_headphone_name(H_AKG)) @@ (H_akg :> parse_headphone_name(H_akg))
    @@ (H_KZ :> parse_headphone_name(H_KZ))

(***************************************************************************)
(* The state of the program: its parts, and their values at rest           *)
(***************************************************************************)

nameVars == <<folder_name, name_result>>

profVars == <<content, readable, ppc, lines, line, preamp, filters, filter_type, step, profile>>

mainVars ==
  <<root, tree, pc, source_idx, targets_left, target_folder, form_factor, hps_left,
    all_entries, database, visited, run, first_database, profile_of, name_of>>

vars == <<nameVars, profVars, mainVars>>

\* the values of the variables of a part of the program that is not running
NameIdle == folder_name = <<>> /\ name_result = Unset

ProfIdle ==
  /\ content = <<>> /\ readable = TRUE /\ ppc = "idle" /\ lines = <<>>
  /\ line = <<>> /\ preamp = DefaultPreamp /\ filters = <<>>
  /\ filter_type = "None" /\ step = "none" /\ profile = Unset

MainIdle ==
  /\ root = "noarg" /\ tree = {} /\ pc = "idle" /\ source_idx = 1
  /\ targets_left = {} /\ target_folder = <<>> /\ form_factor = "over-ear"
  /\ hps_left = {} /\ all_entries = <<>> /\ database = Unset
  /\ visited = <<>> /\ run = 1 /\ first_database = Unset
  /\ profile_of = <<>> /\ name_of = <<>>

(***************************************************************************)
(* parse_headphone_name as a one-step program                              *)
(***************************************************************************)

InitName ==
  /\ folder_name \in FolderNames
  /\ name_result = Unset
  /\ ProfIdle /\ MainIdle

Classify ==
  /\ name_result = Unset
  /\ name_result' = parse_headphone_name(folder_name)
  /\ UNCHANGED <<folder_name, profVars, mainVars>>

NextName == Classify

SpecName == InitName /\ [][NextName]_vars

(***************************************************************************)
(* parse_profile, one loop iteration per step                              *)
(***************************************************************************)

InitProfile ==
  /\ \/ readable = TRUE /\ content \in ProfileFiles
     \/ readable = FALSE /\ content \in MultiLineFiles
  /\ ppc = "open" /\ lines = <<>> /\ line = <<>> /\ preamp = DefaultPreamp
  /\ filters = <<>> /\ filter_type = "None" /\ step = "none" /\ profile = Unset
  /\ NameIdle /\ MainIdle

\* open() or read() raises: except Exception: return None
OpenFails ==
  /\ ppc = "open" /\ ~readable
  /\ ppc' = "returned" /\ profile' = None
  /\ UNCHANGED <<content, readable, lines, line, preamp, filters, filter_type, step>>
  /\ UNCHANGED <<nameVars, mainVars>>

\* the file is read; preamp = 0.0, filters = [], the loop starts
OpenReads ==
  /\ ppc = "open" /\ readable
  /\ ppc' = "loop"
  /\ lines' = Split(content, "\n")
  /\ preamp' = DefaultPreamp /\ filters' = <<>>
  /\ UNCHANGED <<content, readable, line, filter_type, step, profile>>
  /\ UNCHANGED <<nameVars, mainVars>>

\* one iteration of the loop that ends in the branch kind
Iteration(kind) ==
  /\ ppc = "loop" /\ lines # <<>>
  /\ LineKind(Strip(Head(lines))) = kind
  /\ LET eff == LineEffect(Head(lines), preamp, filters)
     IN /\ line' = Strip(Head(lines))
        /\ preamp' = eff.preamp
        /\ filters' = eff.filters
        /\ filter_type' = eff.filter_type
        /\ step' = kind
  /\ lines' = Tail(lines)
  /\ UNCHANGED <<content, readable>>
  /\ UNCHANGED <<nameVars, mainVars>>

PreampLine == Iteration("preamp") /\ UNCHANGED <<ppc, profile>>

SkipLine == Iteration("skip") /\ UNCHANGED <<ppc, profile>>

NoTypeLine == Iteration("notype") /\ UNCHANGED <<ppc, profile>>

AppendFilter == Iteration("filter") /\ UNCHANGED <<ppc, profile>>

\* float(q_match.group(1)) raises ValueError, which nothing catches
RaiseValueError == Iteration("raise") /\ ppc' = "raised" /\ profile' = ValueError

Return ==
  /\ ppc = "loop" /\ lines = <<>>
  /\ ppc' = "returned"
  /\ profile' = [preamp |-> preamp, filters |-> filters]
  /\ UNCHANGED <<content, readable, lines, line, preamp, filters, filter_type, step>>
  /\ UNCHANGED <<nameVars, mainVars>>

NextProfile ==
  \/ OpenFails
  \/ OpenReads
  \/ PreampLine
  \/ SkipLine
  \/ NoTypeLine
  \/ AppendFilter
  \/ RaiseValueError
  \/ Return

SpecProfile == InitProfile /\ [][NextProfile]_vars

(***************************************************************************)
(* main                                                                    *)
(***************************************************************************)

\* the position of key in the dict, 0 when it is not a key
IndexOfKey(d, key) ==
  IF \E i \in 1..Len(d) : d[i].key = key
  THEN CHOOSE i \in 1..Len(d) : d[i].key = key
  ELSE 0

\* A mutant of SkipsProfile: a profile without filters is not skipped.
SkipsProfileNoneOnly(p) == p = None

\* not profile or not profile['filters']
SkipsProfile(p) == IF p = None THEN TRUE ELSE p.filters = <<>>

\* A mutant of MergeReplaces: the comparison the wrong way round.
MergeReplacesHigher(priority, stored) == priority > stored

\* A mutant of MergeReplaces: an equal priority replaces too.
MergeReplacesEqual(priority, stored) == priority <= stored

\* priority < all_entries[key]['_priority']
MergeReplaces(priority, stored) == priority < stored

\* A mutant of EntryOf: the form factor is not the one of the target folder
\* the headphone folder is in, but the default one.
EntryOfDefaultForm(info, form, headphone_folder, p) ==
  LET name == name_of[headphone_folder]
  IN [id |-> info.name \o <<"/">> \o headphone_folder,
      manufacturer |-> name[1],
      model |-> name[2],
      source |-> info.name,
      formFactor |-> "over-ear",
      preamp |-> p.preamp,
      filters |-> p.filters,
      _priority |-> info.priority]

\* the dict entry built for a headphone folder, with entry['_priority']
EntryOf(info, form, headphone_folder, p) ==
  LET name == name_of[headphone_folder]
  IN [id |-> info.name \o <<"/">> \o headphone_folder,
      manufacturer |-> name[1],
      model |-> name[2],
      source |-> info.name,
      formFactor |-> form,
      preamp |-> p.preamp,
      filters |-> p.filters,
      _priority |-> info.priority]

\* del entry['_priority']
WithoutPriority(e) ==
  [id |-> e.id, manufacturer |-> e.manufacturer, model |-> e.model,
   source |-> e.source, formFactor |-> e.formFactor, preamp |-> e.preamp,
   filters |-> e.filters]

\* the sort key: (x['manufacturer'].lower(), x['model'].lower())
SortKey(x) == <<Lower(x.manufacturer), Lower(x.model)>>

\* A mutant of SortEntries: the list is left in the order of the dict.
SortEntriesNot(es) == es

\* entries.sort(key=...): a stable sort, ascending; each element goes after
\* the elements before it whose key is not greater
SortEntries(es) ==
  LET Insert(S, e) ==
        LET p == Cardinality({i \in 1..Len(S) : ~PairLess(SortKey(e), SortKey(S[i]))})
        IN SubSeq(S, 1, p) \o <<e>> \o SubSeq(S, p + 1, Len(S))
      sorted[k \in 0..Len(es)] ==
        IF k = 0 THEN <<>> ELSE Insert(sorted[k - 1], es[k])
  IN sorted[Len(es)]

\* the values datetime.now(timezone.utc).isoformat() takes
Clock == {"t1", "t2"}

InitMain ==
  /\ profile_of = ProfileTable /\ name_of = NameTable
  /\ \/ root = "exists" /\ tree \in TreesUpTo(MaxItems)
     \/ root \in {"noarg", "missing"} /\ tree = {}
  /\ pc = "start" /\ source_idx = 1
  /\ targets_left = {} /\ target_folder = <<>> /\ form_factor = "over-ear"
  /\ hps_left = {} /\ all_entries = <<>> /\ database = Unset
  /\ visited = <<>> /\ run = 1 /\ first_database = Unset
  /\ NameIdle /\ ProfIdle

\* len(sys.argv) < 2: sys.exit(1)
Usage ==
  /\ pc = "start" /\ root = "noarg"
  /\ pc' = "exit1"
  /\ UNCHANGED <<root, tree, source_idx, targets_left, target_folder, form_factor,
                 hps_left, all_entries, database, visited, run, first_database, profile_of, name_of>>
  /\ UNCHANGED <<nameVars, profVars>>

\* not results_path.exists(): sys.exit(1)
RootMissing ==
  /\ pc = "start" /\ root = "missing"
  /\ pc' = "exit1"
  /\ UNCHANGED <<root, tree, source_idx, targets_left, target_folder, form_factor,
                 hps_left, all_entries, database, visited, run, first_database, profile_of, name_of>>
  /\ UNCHANGED <<nameVars, profVars>>

\* all_entries = {} and the loop over SOURCE_INFO starts
Start ==
  /\ pc = "start" /\ root = "exists"
  /\ pc' = "sources" /\ source_idx' = 1 /\ all_entries' = <<>>
  /\ UNCHANGED <<root, tree, targets_left, target_folder, form_factor,
                 hps_left, database, visited, run, first_database, profile_of, name_of>>
  /\ UNCHANGED <<nameVars, profVars>>

\* not source_path.exists(): continue
SkipSource ==
  /\ pc = "sources" /\ source_idx <= Len(SOURCE_INFO)
  /\ ~SourceExists(tree, SOURCE_INFO[source_idx].folder)
  /\ source_idx' = source_idx + 1
  /\ UNCHANGED <<root, tree, pc, targets_left, target_folder, form_factor,
                 hps_left, all_entries, database, visited, run, first_database, profile_of, name_of>>
  /\ UNCHANGED <<nameVars, profVars>>

\* os.listdir(source_path) raises NotADirectoryError, which nothing catches
ListSourceRaises ==
  /\ pc = "sources" /\ source_idx <= Len(SOURCE_INFO)
  /\ SourceExists(tree, SOURCE_INFO[source_idx].folder)
  /\ ~SourceIsDir(tree, SOURCE_INFO[source_idx].folder)
  /\ pc' = "crashed"
  /\ UNCHANGED <<root, tree, source_idx, targets_left, target_folder, form_factor,
                 hps_left, all_entries, database, visited, run, first_database, profile_of, name_of>>
  /\ UNCHANGED <<nameVars, profVars>>

\* os.listdir(source_path) returns the names, in an order of its own
ListSource ==
  /\ pc = "sources" /\ source_idx <= Len(SOURCE_INFO)
  /\ SourceIsDir(tree, SOURCE_INFO[source_idx].folder)
  /\ targets_left' = TargetsOf(tree, SOURCE_INFO[source_idx].folder)
  /\ pc' = "targets"
  /\ UNCHANGED <<root, tree, source_idx, target_folder, form_factor,
                 hps_left, all_entries, database, visited, run, first_database, profile_of, name_of>>
  /\ UNCHANGED <<nameVars, profVars>>

\* the next name of the listing; not target_path.is_dir(): continue
SkipTarget ==
  /\ pc = "targets"
  /\ \E t \in targets_left :
       /\ ~TargetIsDir(tree, SOURCE_INFO[source_idx].folder, t)
       /\ targets_left' = targets_left \ {t}
  /\ UNCHANGED <<root, tree, pc, source_idx, target_folder, form_factor,
                 hps_left, all_entries, database, visited, run, first_database, profile_of, name_of>>
  /\ UNCHANGED <<nameVars, profVars>>

\* the next name of the listing is a directory: form_factor is detected and
\* os.listdir(target_path) returns the names, in an order of its own
ListTarget ==
  /\ pc = "targets"
  /\ \E t \in targets_left :
       /\ TargetIsDir(tree, SOURCE_INFO[source_idx].folder, t)
       /\ targets_left' = targets_left \ {t}
       /\ target_folder' = t
       /\ form_factor' = detect_form_factor(t)
       /\ hps_left' = HeadphonesOf(tree, SOURCE_INFO[source_idx].folder, t)
  /\ pc' = "headphones"
  /\ UNCHANGED <<root, tree, source_idx, all_entries, database, visited, run,
                 first_database, profile_of, name_of>>
  /\ UNCHANGED <<nameVars, profVars>>

\* the listing of the source is exhausted: the next source
EndTargets ==
  /\ pc = "targets" /\ targets_left = {}
  /\ pc' = "sources" /\ source_idx' = source_idx + 1
  /\ UNCHANGED <<root, tree, targets_left, target_folder, form_factor,
                 hps_left, all_entries, database, visited, run, first_database, profile_of, name_of>>
  /\ UNCHANGED <<nameVars, profVars>>

\* One iteration of the loop over os.listdir(target_path) for the name h,
\* which leaves all_entries as d and visited as v.
Headphone(h, d, v) ==
  /\ pc = "headphones" /\ h \in hps_left
  /\ hps_left' = hps_left \ {h}
  /\ all_entries' = d
  /\ visited' = v
  /\ UNCHANGED <<root, tree, pc, source_idx, targets_left, target_folder, form_factor,
                 database, run, first_database, profile_of, name_of>>
  /\ UNCHANGED <<nameVars, profVars>>

\* what is at headphone_path
Here(h) == ItemAt(tree, SOURCE_INFO[source_idx].folder, target_folder, h)

\* not headphone_path.is_dir(): continue
SkipHeadphone ==
  \E h \in hps_left :
    /\ Here(h).kind = "hpfile"
    /\ Headphone(h, all_entries, visited)

\* not peq_file.exists(): continue
SkipNoFile ==
  \E h \in hps_left :
    /\ Here(h).kind = "nopeq"
    /\ Headphone(h, all_entries, visited)

\* parse_profile raises ValueError, which nothing catches
ParseRaises ==
  /\ pc = "headphones"
  /\ \E h \in hps_left :
       /\ Here(h).kind \in {"unreadable", "text"}
       /\ ProfileOf(Here(h)) = ValueError
  /\ pc' = "crashed"
  /\ UNCHANGED <<root, tree, source_idx, targets_left, target_folder, form_factor,
                 hps_left, all_entries, database, visited, run, first_database, profile_of, name_of>>
  /\ UNCHANGED <<nameVars, profVars>>

\* not profile or not profile['filters']: continue
SkipProfile ==
  \E h \in hps_left :
    /\ Here(h).kind \in {"unreadable", "text"}
    /\ ProfileOf(Here(h)) # ValueError
    /\ SkipsProfile(ProfileOf(Here(h)))
    /\ Headphone(h, all_entries, visited)

\* the entry of the headphone folder h, which reached the merge
Candidate(h) ==
  LET e == EntryOf(SOURCE_INFO[source_idx], form_factor, h, ProfileOf(Here(h)))
  IN [key |-> <<Lower(e.manufacturer), Lower(e.model)>>, entry |-> e]

ReachesMerge(h) ==
  /\ Here(h).kind \in {"unreadable", "text"}
  /\ ProfileOf(Here(h)) # ValueError
  /\ ~SkipsProfile(ProfileOf(Here(h)))

\* key not in all_entries: the entry is stored
StoreNew ==
  \E h \in hps_left :
    /\ ReachesMerge(h)
    /\ IndexOfKey(all_entries, Candidate(h).key) = 0
    /\ Headphone(h, Append(all_entries, Candidate(h)), Append(visited, Candidate(h)))

\* key in all_entries: the entry replaces the stored one, in its place in the
\* dict, when its priority is lower, and the stored entry stays otherwise
MergeStored ==
  \E h \in hps_left :
    LET i == IndexOfKey(all_entries, Candidate(h).key)
    IN /\ ReachesMerge(h)
       /\ i # 0
       /\ Headphone(h,
                    IF MergeReplaces(Candidate(h).entry._priority,
                                     all_entries[i].entry._priority)
                    THEN [all_entries EXCEPT ![i] = Candidate(h)]
                    ELSE all_entries,
                    Append(visited, Candidate(h)))

\* the listing of the target is exhausted: the next target
EndHeadphones ==
  /\ pc = "headphones" /\ hps_left = {}
  /\ pc' = "targets"
  /\ UNCHANGED <<root, tree, source_idx, targets_left, target_folder, form_factor,
                 hps_left, all_entries, database, visited, run, first_database, profile_of, name_of>>
  /\ UNCHANGED <<nameVars, profVars>>

\* after the loops: _priority is deleted, the list is sorted, the document
\* is stamped and printed
Finish ==
  /\ pc = "sources" /\ source_idx > Len(SOURCE_INFO)
  /\ \E now \in Clock :
       LET entries == SortEntries([i \in 1..Len(all_entries) |->
                                     WithoutPriority(all_entries[i].entry)])
       IN database' = [version |-> 1, generatedAt |-> now,
                       entryCount |-> Len(entries), entries |-> entries]
  /\ pc' = "done"
  /\ UNCHANGED <<root, tree, source_idx, targets_left, target_folder, form_factor,
                 hps_left, all_entries, visited, run, first_database, profile_of, name_of>>
  /\ UNCHANGED <<nameVars, profVars>>

\* the program is run again on the same tree
Rerun ==
  /\ pc = "done" /\ run = 1
  /\ run' = 2 /\ first_database' = database
  /\ pc' = "start" /\ source_idx' = 1
  /\ targets_left' = {} /\ target_folder' = <<>> /\ form_factor' = "over-ear"
  /\ hps_left' = {} /\ all_entries' = <<>> /\ database' = Unset /\ visited' = <<>>
  /\ UNCHANGED <<root, tree, profile_of, name_of>>
  /\ UNCHANGED <<nameVars, profVars>>

Next ==
  \/ Usage
  \/ RootMissing
  \/ Start
  \/ SkipSource
  \/ ListSourceRaises
  \/ ListSource
  \/ SkipTarget
  \/ ListTarget
  \/ EndTargets
  \/ SkipHeadphone
  \/ SkipNoFile
  \/ ParseRaises
  \/ SkipProfile
  \/ StoreNew
  \/ MergeStored
  \/ EndHeadphones
  \/ Finish
  \/ Rerun

Init == InitMain

Spec == Init /\ [][Next]_vars

(***************************************************************************)
(* What the claims are stated over: the folders of the tree                *)
(***************************************************************************)

\* the entry of SOURCE_INFO for a source folder
InfoOfFolder(src) ==
  SOURCE_INFO[CHOOSE k \in 1..Len(SOURCE_INFO) : SOURCE_INFO[k].folder = src]

\* the headphone folders of the tree whose expected file is read and parses
\* to at least one filter
ValidFolders ==
  {i \in tree : IF i.kind # "text" THEN FALSE
                ELSE IF profile_of[i.text] = ValueError THEN FALSE
                ELSE profile_of[i.text].filters # <<>>}

\* (manufacturer.lower(), model.lower()) of a headphone folder
FolderKey(i) == <<Lower(name_of[i.hp][1]), Lower(name_of[i.hp][2])>>

\* (manufacturer.lower(), model.lower()) of an emitted entry
EntryKey(e) == <<Lower(e.manufacturer), Lower(e.model)>>

\* the entry a valid headphone folder stands for, every field from that folder
FolderEntry(i) ==
  [id |-> InfoOfFolder(i.src).name \o <<"/">> \o i.hp,
   manufacturer |-> name_of[i.hp][1],
   model |-> name_of[i.hp][2],
   source |-> InfoOfFolder(i.src).name,
   formFactor |-> detect_form_factor(i.tgt),
   preamp |-> profile_of[i.text].preamp,
   filters |-> profile_of[i.text].filters]

\* the entries of the emitted catalog, as a set
Emitted == {database.entries[k] : k \in 1..Len(database.entries)}

(***************************************************************************)
(* The claims about main                                                   *)
(***************************************************************************)

\* C1: when a run completes, for every key that valid headphone folders of
\* two or more sources share, the catalog holds an entry with that key whose
\* source is one of those sources and has the minimum priority number among
\* them, whatever order the listings were returned in.
C1_PriorityResolution ==
  pc = "done" =>
    \A i \in ValidFolders :
      LET same == {j \in ValidFolders : FolderKey(j) = FolderKey(i)}
      IN Cardinality({j.src : j \in same}) >= 2 =>
           \E e \in Emitted :
             /\ EntryKey(e) = FolderKey(i)
             /\ \E j \in same :
                  /\ InfoOfFolder(j.src).name = e.source
                  /\ \A k \in same :
                       InfoOfFolder(j.src).priority <= InfoOfFolder(k.src).priority

\* C1, its case: a completed run on a tree in which two sources of different
\* priority hold a valid folder of the same key
C1_Witness ==
  /\ pc = "done"
  /\ \E i, j \in ValidFolders :
       /\ FolderKey(i) = FolderKey(j)
       /\ InfoOfFolder(i.src).priority < InfoOfFolder(j.src).priority

\* C2: once the root path is supplied and exists, the run never aborts.
C2_NeverAborts == root = "exists" => pc # "crashed"

\* C3: two runs on the same tree print the same entries array, in order and
\* in content.
C3_SameEntries ==
  (run = 2 /\ pc = "done") => database.entries = first_database.entries

\* C4: in every emitted catalog the entries are strictly ascending by
\* (manufacturer lowercased, model lowercased): sorted, and no pair twice.
C4_StrictlyAscending ==
  pc = "done" =>
    \A a, b \in 1..Len(database.entries) :
      a < b => PairLess(EntryKey(database.entries[a]), EntryKey(database.entries[b]))

\* C4, its case: a catalog of several entries whose order in the dict was not
\* the sorted order
C4_Witness ==
  /\ pc = "done"
  /\ Len(database.entries) >= 2
  /\ \E a, b \in 1..Len(all_entries) :
       a < b /\ PairLess(all_entries[b].key, all_entries[a].key)

\* C5: no entry without filters is ever in the accumulation map or in the
\* emitted catalog, and no profile without filters ever reaches the merge,
\* where it could displace or block an entry of the same key.
C5_NoEmptyFilters ==
  /\ \A k \in 1..Len(all_entries) : all_entries[k].entry.filters # <<>>
  /\ \A k \in 1..Len(visited) : visited[k].entry.filters # <<>>
  /\ pc = "done" => \A e \in Emitted : e.filters # <<>>

\* C5, its case: a completed run on a tree in which a folder whose file parses
\* to no filter comes, with the same key, before a valid folder of a source
\* of higher priority number, and the valid one is emitted
C5_Witness ==
  /\ pc = "done"
  /\ \E i \in tree, j \in ValidFolders :
       /\ i.kind = "text" /\ i.text = T_NoFilters
       /\ FolderKey(i) = FolderKey(j)
       /\ InfoOfFolder(i.src).priority < InfoOfFolder(j.src).priority
       /\ FolderEntry(j) \in Emitted

\* the first candidate, in the order of the traversal, among the candidates
\* of the key that have the minimum priority number
C7_FirstOfMinimum(key) ==
  LET of == {n \in 1..Len(visited) : visited[n].key = key}
      least == {n \in of : \A m \in of :
                   visited[n].entry._priority <= visited[m].entry._priority}
  IN visited[First(least)]

\* C7, in every state: the entry stored for a key is the first encountered
\* among the candidates of minimum priority number, and so is the one emitted
C7_StoredIsFirst ==
  /\ \A k \in 1..Len(all_entries) :
       all_entries[k] = C7_FirstOfMinimum(all_entries[k].key)
  /\ pc = "done" =>
       \A k \in 1..Len(all_entries) :
         WithoutPriority(C7_FirstOfMinimum(all_entries[k].key).entry) \in Emitted

\* C7, in every step of the traversal: a stored entry changes only to a
\* candidate of the same key with a strictly lower priority number
C7_ReplacedOnlyByLower ==
  pc = "headphones" =>
    \A k \in 1..Len(all_entries) :
      /\ Len(all_entries') >= k
      /\ all_entries'[k] # all_entries[k] =>
           /\ all_entries'[k].key = all_entries[k].key
           /\ all_entries'[k].entry._priority < all_entries[k].entry._priority

\* C7: once an entry is stored for a key it is replaced only by a candidate
\* of strictly lower priority number; a later candidate of equal or higher
\* priority number leaves it unchanged, so the first encountered candidate of
\* the minimum priority number is the one emitted.
C7_FirstEncounteredWins == []C7_StoredIsFirst /\ [][C7_ReplacedOnlyByLower]_vars

\* C7, its case: a completed run in which two different candidates of the
\* same key and the same priority number reached the merge
C7_Witness ==
  /\ pc = "done"
  /\ \E n, m \in 1..Len(visited) :
       /\ n < m
       /\ visited[n].key = visited[m].key
       /\ visited[n].entry._priority = visited[m].entry._priority
       /\ visited[n].entry # visited[m].entry

\* C10, when a run completes: the keys of the catalog are the keys of the
\* valid headphone folders, and each entry is the entry of one valid folder
C10_CatalogIsTheFolders ==
  pc = "done" =>
    /\ {EntryKey(e) : e \in Emitted} = {FolderKey(i) : i \in ValidFolders}
    /\ \A e \in Emitted : \E i \in ValidFolders : e = FolderEntry(i)

\* C10, in every step of a run: a key stored in the accumulation map stays
C10_KeyStays ==
  run' = run =>
    \A k \in 1..Len(all_entries) :
      \E n \in 1..Len(all_entries') : all_entries'[n].key = all_entries[k].key

\* C10: when a run completes, the keys of the catalog are exactly the keys of
\* the headphone folders whose expected file parsed to at least one filter; a
\* key once stored is never removed; each emitted entry is one such
\* candidate, all of its fields from the same headphone folder.
C10_Completeness == []C10_CatalogIsTheFolders /\ [][C10_KeyStays]_vars

\* C10, its case: a completed run on a tree with a valid folder below an
\* in-ear target and a folder that is not valid, with one entry emitted
C10_Witness ==
  /\ pc = "done"
  /\ Len(database.entries) = 1
  /\ \E i \in ValidFolders : detect_form_factor(i.tgt) # "over-ear"
  /\ \E i \in tree : i \notin ValidFolders

(***************************************************************************)
(* The claim about parse_headphone_name                                    *)
(***************************************************************************)

\* the k-th manufacturer of the list is, without regard to case, a prefix of
\* the name n, and the name ends there or goes on with a space
C6_IsAt(n, k) ==
  LET m == manufacturers[k]
  IN /\ Len(m) <= Len(n)
     /\ \A i \in 1..Len(m) : LowerChar(n[i]) = LowerChar(m[i])
     /\ Len(n) = Len(m) \/ n[Len(m) + 1] = " "

\* the positions of the spaces of the name n
C6_Spaces(n) == {i \in 1..Len(n) : n[i] = " "}

\* what C6 says parse_headphone_name returns for the name n
C6_Expected(n) ==
  LET at == {k \in 1..Len(manufacturers) : C6_IsAt(n, k)}
  IN IF at # {}
     THEN LET m == manufacturers[First(at)]
              rest == Strip(SubSeq(n, Len(m) + 1, Len(n)))
          IN <<m, IF rest # <<>> THEN rest ELSE n>>
     ELSE IF C6_Spaces(n) = {}
          THEN <<n, <<>>>>
          ELSE <<SubSeq(n, 1, First(C6_Spaces(n)) - 1),
                 SubSeq(n, First(C6_Spaces(n)) + 1, Len(n))>>

\* C6: parse_headphone_name returns the first manufacturer of the list that
\* is, without regard to case, a prefix of the folder name followed by a space
\* or by nothing, with the trimmed remainder as the model, or the whole folder
\* name when nothing remains; a manufacturer followed by another character
\* does not match; without a match the name is split at its first space, and
\* without a space the whole name is the manufacturer and the model is empty.
C6_NameClassification ==
  name_result # Unset => name_result = C6_Expected(folder_name)

\* C6, its case: a folder name that starts with a manufacturer and goes on
\* with another character than a space was classified by the split
C6_Witness ==
  /\ name_result # Unset
  /\ \E k \in 1..Len(manufacturers) :
       /\ Len(manufacturers[k]) < Len(folder_name)
       /\ SubSeq(folder_name, 1, Len(manufacturers[k])) = manufacturers[k]
       /\ folder_name[Len(manufacturers[k]) + 1] # " "
  /\ \A k \in 1..Len(manufacturers) : ~C6_IsAt(folder_name, k)
  /\ C6_Spaces(folder_name) # {}
  /\ name_result[2] # <<>>

(***************************************************************************)
(* The claims about parse_profile                                          *)
(***************************************************************************)

\* the lines of the file
C8_Lines == Split(content, "\n")

\* the preamp declaration lines of the file
C8_Declarations == {k \in 1..Len(C8_Lines) : IsPreampLine(Strip(C8_Lines[k]))}

\* the preamp declaration lines that contain a number
C8_Numbered == {k \in C8_Declarations : SearchNumber(Strip(C8_Lines[k])) # NoMatch}

\* the number of the k-th line
C8_NumberOf(k) == float(SearchNumber(Strip(C8_Lines[k])))

\* parse_profile has read the file and returned its profile
C8_Returned == ppc = "returned" /\ readable

\* C8 as it is written: the preamp of the profile is the value of the last
\* preamp declaration line of the file, 0.0 when that line has no number.
C8_LastDeclarationWins ==
  IF C8_Returned /\ C8_Declarations # {}
  THEN profile.preamp = IF Last(C8_Declarations) \in C8_Numbered
                        THEN C8_NumberOf(Last(C8_Declarations))
                        ELSE DefaultPreamp
  ELSE TRUE

\* C8 as amended: the preamp of the profile is the value of the last preamp
\* declaration line of the file that contains a number, and 0.0 when no
\* preamp declaration line contains one; a declaration line without a number
\* leaves the preamp as it was and raises no error.
C8_LastNumberWins ==
  IF C8_Returned /\ C8_Declarations # {}
  THEN profile.preamp = IF C8_Numbered # {}
                        THEN C8_NumberOf(Last(C8_Numbered))
                        ELSE DefaultPreamp
  ELSE TRUE

\* C8, its case: the profile of a file whose last preamp declaration line has
\* no number and comes after one with a number other than 0.0
C8_Witness ==
  /\ C8_Returned
  /\ C8_Numbered # {}
  /\ Last(C8_Declarations) \notin C8_Numbered
  /\ profile.preamp # DefaultPreamp

\* the codes in the order of the mapping
C9_Codes ==
  << <<"P", "K">>, <<"P", "E", "Q">>, <<"L", "S", "C">>, <<"L", "S", "B">>,
     <<"L", "S">>, <<"H", "S", "C">>, <<"H", "S", "B">>, <<"H", "S">>,
     <<"L", "P">>, <<"L", "P", "Q">>, <<"H", "P">>, <<"H", "P", "Q">> >>

\* the canonical type of the k-th code
C9_TypeOf(k) ==
  IF k <= 2 THEN "peaking"
  ELSE IF k <= 5 THEN "lowShelf"
  ELSE IF k <= 8 THEN "highShelf"
  ELSE IF k <= 10 THEN "lowPass"
  ELSE "highPass"

\* the places of the uppercased line up at which the k-th code occurs with a
\* space on each side
C9_Places(k, up) ==
  LET c == C9_Codes[k]
  IN {i \in 1..Len(up) :
        /\ i + Len(c) + 1 <= Len(up)
        /\ up[i] = " " /\ up[i + Len(c) + 1] = " "
        /\ \A j \in 1..Len(c) : up[i + j] = c[j]}

C9_Present(k, up) == C9_Places(k, up) # {}

\* the type C9 gives the line: that of the first present code, or "None"
C9_Expected(up) ==
  LET present == {k \in 1..Len(C9_Codes) : C9_Present(k, up)}
  IN IF present = {} THEN "None" ELSE C9_TypeOf(First(present))

\* C9, after each iteration that reached the type detection: the type detected
\* is the one of the first present code, the iteration ended for want of a
\* type exactly when no code is present, and a filter appended has that type
C9_TypeOfLine ==
  step \in {"notype", "raise", "filter"} =>
    /\ filter_type = C9_Expected(Upper(line))
    /\ step = "notype" <=> C9_Expected(Upper(line)) = "None"
    /\ step = "filter" => filters[Len(filters)].type = C9_Expected(Upper(line))

\* C9, in every iteration: a line with no present code appends no filter
C9_NoCodeNoFilter ==
  (lines' # lines /\ step' = "notype") => filters' = filters

\* C9: for every line that reaches the type detection, a code counts as
\* present only when it occurs surrounded by spaces in the uppercased line;
\* the emitted type is the canonical type of the first present code in the
\* order of the mapping, wherever the codes occur in the line; a line with no
\* present code emits no filter.
C9_TypeDetection == []C9_TypeOfLine /\ [][C9_NoCodeNoFilter]_vars

\* C9, its case: a filter was appended for a line in which two codes of
\* different types are present, the later one of the mapping first in the line
C9_Witness ==
  /\ step = "filter"
  /\ \E a, b \in 1..Len(C9_Codes) :
       /\ a < b
       /\ C9_TypeOf(a) # C9_TypeOf(b)
       /\ C9_Present(a, Upper(line))
       /\ C9_Present(b, Upper(line))
       /\ First(C9_Places(b, Upper(line))) < First(C9_Places(a, Upper(line)))

=============================================================================
